---- MODULE Spec2Model ----
(***************************************************************************)
(* A model of the slackbot crate: the registration API (SlackBot::on), the *)
(* run call (SlackBot::run), the command parser                            *)
(* (SlackBotEventHandler::parse_json_to_command), the dispatcher           *)
(* (SlackBotEventHandler::on_receive) and the reply capability             *)
(* (Sender / ChannelWriter).                                               *)
(*                                                                         *)
(* Strings whose characters matter (the message text, the bot name, the    *)
(* command name and the arguments) are sequences of one-character strings. *)
(* Opaque identifiers (type, user and channel ids, message contents) are   *)
(* TLA+ strings.                                                           *)
(***************************************************************************)
EXTENDS Integers, Sequences, FiniteSets, TLC

VARIABLES
    phase,      \* "registering" | "running" | "panicked"
    failure,    \* which unwrap or callback panicked, "none" while none did
    bot_name,   \* SlackBot.name / SlackBotEventHandler.bot_name
    handlers,   \* SlackBot.handlers: HashMap<String, Box<CommandHandler>>
    regs,       \* history: the calls of SlackBot::on, in order
    users,      \* the RtmClient's user directory (cli.get_users())
    pc,         \* position of the event loop: "idle" | "received" | "handling" | "done"
    inbox,      \* json_str: the frame the event loop hands to on_receive
    cmd,        \* the Option<UserCommand> parsed from the frame in dispatch
    sender,     \* the Sender built for the dispatch in progress
    lookups,    \* history: the user ids looked up in the directory by the dispatch in progress
    returned,   \* what the last respond_in_channel call returned to the handler
    calls,      \* history: the handle() invocations of the dispatch in progress
    sent,       \* history: the send_message requests of the dispatch in progress
    stdout      \* lines printed by the dispatch in progress

vars == <<phase, failure, bot_name, handlers, regs, users, pc, inbox, cmd,
          sender, lookups, returned, calls, sent, stdout>>

(***************************************************************************)
(* Bounds of the model.                                                    *)
(***************************************************************************)
MaxTextLen == 6     \* longest message text of the exhaustive one-event runs
MaxRegs == 2        \* calls of SlackBot::on before run
MaxSends == 2       \* respond_in_channel calls a handler makes in one dispatch

(***************************************************************************)
(* Characters and texts.                                                   *)
(***************************************************************************)
Whitespace == {" "}
Chars == {"!", "b", " "}

RECURSIVE TextsOfLen(_)
TextsOfLen(n) ==
    IF n = 0 THEN {<<>>}
    ELSE {Append(t, c) : t \in TextsOfLen(n - 1), c \in Chars}

Texts == UNION {TextsOfLen(n) : n \in 0..MaxTextLen}

BotNames == {<<"b">>}

(***************************************************************************)
(* JSON payloads.  A frame either fails to deserialize ("invalid"), is a   *)
(* JSON value that is no object ("value"), or is an object whose four      *)
(* fields of interest are each absent, a non-string value ("other") or a   *)
(* string.                                                                 *)
(***************************************************************************)
JAbsent == [kind |-> "absent", str |-> ""]
JOther == [kind |-> "other", str |-> ""]
JString(s) == [kind |-> "string", str |-> s]

TAbsent == [kind |-> "absent", str |-> <<>>]
TOther == [kind |-> "other", str |-> <<>>]
TString(t) == [kind |-> "string", str |-> t]

NoFrame == [json |-> "none", type |-> JAbsent, text |-> TAbsent,
            user |-> JAbsent, channel |-> JAbsent]
InvalidJson == [json |-> "invalid", type |-> JAbsent, text |-> TAbsent,
                user |-> JAbsent, channel |-> JAbsent]
NonObjectJson == [json |-> "value", type |-> JAbsent, text |-> TAbsent,
                  user |-> JAbsent, channel |-> JAbsent]

Object(ty, text, user, channel) ==
    [json |-> "object", type |-> ty, text |-> text, user |-> user,
     channel |-> channel]

(***************************************************************************)
(* str::starts_with, str::split_whitespace and Iterator::skip, as the      *)
(* parser uses them.                                                       *)
(***************************************************************************)
\* a bug this model is checked against: str::contains in place of starts_with
starts_with_anywhere(text, pat) ==
    \E k \in 0..(Len(text) - Len(pat)) : SubSeq(text, k + 1, k + Len(pat)) = pat

starts_with(text, pat) ==
    /\ Len(pat) <= Len(text)
    /\ SubSeq(text, 1, Len(pat)) = pat

RECURSIVE SplitFrom(_, _, _, _)
SplitFrom(text, i, cur, acc) ==
    IF i > Len(text)
    THEN IF cur = <<>> THEN acc ELSE Append(acc, cur)
    ELSE IF text[i] \in Whitespace
         THEN SplitFrom(text, i + 1, <<>>,
                        IF cur = <<>> THEN acc ELSE Append(acc, cur))
         ELSE SplitFrom(text, i + 1, Append(cur, text[i]), acc)

\* a bug this model is checked against: text.split(' '), which yields an
\* empty piece between two adjacent separators
RECURSIVE SplitOnEach(_, _, _, _)
SplitOnEach(text, i, cur, acc) ==
    IF i > Len(text) THEN Append(acc, cur)
    ELSE IF text[i] \in Whitespace
         THEN SplitOnEach(text, i + 1, <<>>, Append(acc, cur))
         ELSE SplitOnEach(text, i + 1, Append(cur, text[i]), acc)

split_on_each_space(text) == SplitOnEach(text, 1, <<>>, <<>>)

split_whitespace(text) == SplitFrom(text, 1, <<>>, <<>>)

\* a bug this model is checked against: the skip(1) left out
skip_nothing(s, n) == s

skip(s, n) == IF Len(s) <= n THEN <<>> ELSE SubSeq(s, n + 1, Len(s))

(***************************************************************************)
(* parse_json_to_command.                                                  *)
(***************************************************************************)
help == <<"h", "e", "l", "p">>

bang_command(name) == <<"!">> \o name

NoneCommand == [tag |-> "None", command |-> <<>>, args |-> <<>>,
                user_id |-> "", channel |-> ""]
\* a bug this model is checked against: the failed unwrap turned into a
\* "no command" result
unwrap_to_none(what) == NoneCommand

UnwrapPanic(what) == [tag |-> what, command |-> <<>>, args |-> <<>>,
                      user_id |-> "", channel |-> ""]
SomeCommand(command, args, user_id, channel) ==
    [tag |-> "Some", command |-> command, args |-> args,
     user_id |-> user_id, channel |-> channel]

\* a bug this model is checked against: an empty default command name
command_of_empty_default(command_pieces) ==
    IF command_pieces # <<>> THEN Head(command_pieces) ELSE <<>>

command_of(command_pieces) ==
    IF command_pieces # <<>> THEN Head(command_pieces) ELSE help

\* a bug this model is checked against: the command name left among the
\* arguments
args_of_with_name(command_pieces) == command_pieces

args_of(command_pieces) ==
    IF command_pieces # <<>> THEN Tail(command_pieces) ELSE <<>>

command_pieces_of(text) == skip(split_whitespace(text), 1)

\* a bug this model is checked against: any string type accepted
is_message_any_type(ty) == ty.kind = "string"

is_message(ty) == ty.kind = "string" /\ ty.str = "message"

\* a bug this model is checked against: a missing user or channel replaced
\* by an empty string
id_or_empty(field) == IF field.kind = "string" THEN field.str ELSE ""

parse_defaulting_ids(name, json_str) ==
    IF json_str.json = "invalid" THEN UnwrapPanic("from_str")
    ELSE IF json_str.json # "object" THEN UnwrapPanic("as_object")
    ELSE IF /\ is_message(json_str.type)
            /\ json_str.text.kind = "string"
            /\ starts_with(json_str.text.str, bang_command(name))
         THEN LET command_pieces == command_pieces_of(json_str.text.str)
              IN  SomeCommand(command_of(command_pieces),
                              args_of(command_pieces),
                              id_or_empty(json_str.user),
                              id_or_empty(json_str.channel))
         ELSE NoneCommand

parse_json_to_command(name, json_str) ==
    IF json_str.json = "invalid" THEN UnwrapPanic("from_str")
    ELSE IF json_str.json # "object" THEN UnwrapPanic("as_object")
    ELSE IF /\ is_message(json_str.type)
            /\ json_str.text.kind = "string"
            /\ starts_with(json_str.text.str, bang_command(name))
            /\ json_str.user.kind = "string"
            /\ json_str.channel.kind = "string"
         THEN LET command_pieces == command_pieces_of(json_str.text.str)
              IN  SomeCommand(command_of(command_pieces),
                              args_of(command_pieces),
                              json_str.user.str, json_str.channel.str)
         ELSE NoneCommand

(***************************************************************************)
(* The handler registry, the user directory and the reply capability.      *)
(***************************************************************************)
HandlerIds == {"h1", "h2"}
RegNames == {<<"b">>, help}
KnownUsers == {[id |-> "U1"], [id |-> "U2"]}
Messages == {"hello", "C1"}

\* a bug this model is checked against: entry(key).or_insert(value), which
\* keeps the handler already registered
insert_if_absent(map, key, value) ==
    [k \in DOMAIN map \cup {key} |->
        IF k \in DOMAIN map THEN map[k] ELSE value]

\* HashMap::insert
insert(map, key, value) ==
    [k \in DOMAIN map \cup {key} |-> IF k = key THEN value ELSE map[k]]

\* a bug this model is checked against: the first user of the directory
\* taken, whatever its id
find_user_any(directory, user_id) == directory

\* cli.get_users().iter().find(|u| u.id == cmd.user_id)
find_user(directory, user_id) == {u \in directory : u.id = user_id}

ChannelWriter_new(channel_id) == [channel_id |-> channel_id]

\* a bug this model is checked against: send_message's arguments swapped
write_swapped(channel_writer, message) ==
    [channel |-> message, message |-> channel_writer.channel_id]

\* ChannelWriter::write: the send_message request handed to the client
write(channel_writer, message) ==
    [channel |-> channel_writer.channel_id, message |-> message]

NoSender == [channel_writer |-> ChannelWriter_new(""), user |-> [id |-> ""]]

NoHandler == "none"

\* a bug this model is checked against: a lookup that ignores the case of
\* the command name
lower(name) == [i \in DOMAIN name |-> IF name[i] = "B" THEN "b" ELSE name[i]]

get_mut_ignoring_case(map, key) ==
    LET hits == {k \in DOMAIN map : lower(k) = lower(key)}
    IN  IF hits = {} THEN NoHandler ELSE map[CHOOSE k \in hits : TRUE]

\* HashMap::get_mut: the handler stored under exactly this key, if any
get_mut(map, key) == IF key \in DOMAIN map THEN map[key] ELSE NoHandler

\* the Result of send_message, which write and respond_in_channel pass on
result_of(ok) == IF ok THEN "Ok" ELSE "Err"

(***************************************************************************)
(* Initial state: SlackBot::new.                                           *)
(***************************************************************************)
Init ==
    /\ phase = "registering"
    /\ failure = "none"
    /\ bot_name \in BotNames
    /\ handlers = <<>>
    /\ regs = <<>>
    /\ users = {}
    /\ pc = "idle"
    /\ inbox = NoFrame
    /\ cmd = NoneCommand
    /\ sender = NoSender
    /\ lookups = <<>>
    /\ returned = "none"
    /\ calls = <<>>
    /\ sent = <<>>
    /\ stdout = <<>>

(***************************************************************************)
(* SlackBot::on and SlackBot::run.                                         *)
(***************************************************************************)
on(command_name, handler) ==
    /\ phase = "registering"
    /\ Len(regs) < MaxRegs
    /\ handlers' = insert(handlers, command_name, handler)
    /\ regs' = Append(regs, [name |-> command_name, handler |-> handler])
    /\ UNCHANGED <<phase, failure, bot_name, users, pc, inbox, cmd, sender,
                   lookups, returned, calls, sent, stdout>>

\* run logs in; the client's user directory is whatever the login returned
run(directory) ==
    /\ phase = "registering"
    /\ phase' = "running"
    /\ users' = directory
    /\ UNCHANGED <<failure, bot_name, handlers, regs, pc, inbox, cmd, sender,
                   lookups, returned, calls, sent, stdout>>

(***************************************************************************)
(* The client's event loop (login_and_run): it hands one frame at a time   *)
(* to on_receive and takes the next one only after on_receive returned.    *)
(***************************************************************************)
receive_frame(json_str) ==
    /\ phase = "running"
    /\ pc = "idle"
    /\ inbox' = json_str
    /\ pc' = "received"
    /\ UNCHANGED <<phase, failure, bot_name, handlers, regs, users, cmd,
                   sender, lookups, returned, calls, sent, stdout>>

\* on_receive has returned: its locals are gone, the loop waits again
next_frame ==
    /\ phase = "running"
    /\ pc = "done"
    /\ pc' = "idle"
    /\ inbox' = NoFrame
    /\ cmd' = NoneCommand
    /\ sender' = NoSender
    /\ lookups' = <<>>
    /\ returned' = "none"
    /\ calls' = <<>>
    /\ sent' = <<>>
    /\ stdout' = <<>>
    /\ UNCHANGED <<phase, failure, bot_name, handlers, regs, users>>

(***************************************************************************)
(* SlackBotEventHandler::on_receive, up to its call of handler.handle.     *)
(***************************************************************************)
\* a bug this model is checked against: the handler taken out of the map for
\* the call (HashMap::remove) and not put back
on_receive_taking_handler ==
    /\ phase = "running"
    /\ pc = "received"
    /\ LET parsed == parse_json_to_command(bot_name, inbox)
           found == find_user(users, parsed.user_id)
           handler == get_mut(handlers, parsed.command)
       IN  IF parsed.tag \notin {"Some", "None"}
           THEN /\ phase' = "panicked"
                /\ failure' = parsed.tag
                /\ UNCHANGED <<pc, cmd, sender, lookups, calls, stdout, handlers>>
           ELSE IF parsed.tag = "None"
           THEN /\ cmd' = parsed
                /\ pc' = "done"
                /\ UNCHANGED <<phase, failure, sender, lookups, calls, stdout,
                               handlers>>
           ELSE IF found = {}
           THEN /\ cmd' = parsed
                /\ lookups' = Append(lookups, parsed.user_id)
                /\ phase' = "panicked"
                /\ failure' = "find_user"
                /\ UNCHANGED <<pc, sender, calls, stdout, handlers>>
           ELSE IF handler = NoHandler
           THEN /\ cmd' = parsed
                /\ lookups' = Append(lookups, parsed.user_id)
                /\ stdout' = Append(stdout, parsed.command)
                /\ pc' = "done"
                /\ UNCHANGED <<phase, failure, sender, calls, handlers>>
           ELSE /\ cmd' = parsed
                /\ lookups' = Append(lookups, parsed.user_id)
                /\ handlers' = [k \in DOMAIN handlers \ {parsed.command} |->
                                   handlers[k]]
                /\ sender' = [channel_writer |-> ChannelWriter_new(parsed.channel),
                              user |-> CHOOSE u \in found : TRUE]
                /\ calls' = Append(calls, [handler |-> handler,
                                           name |-> parsed.command,
                                           args |-> parsed.args])
                /\ pc' = "handling"
                /\ UNCHANGED <<phase, failure, stdout>>
    /\ UNCHANGED <<bot_name, regs, users, inbox, returned, sent>>

on_receive ==
    /\ phase = "running"
    /\ pc = "received"
    /\ LET parsed == parse_json_to_command(bot_name, inbox)
           found == find_user(users, parsed.user_id)
           handler == get_mut(handlers, parsed.command)
       IN  IF parsed.tag \notin {"Some", "None"}
           THEN \* serde_json::from_str(..).unwrap() or as_object().unwrap()
                /\ phase' = "panicked"
                /\ failure' = parsed.tag
                /\ UNCHANGED <<pc, cmd, sender, lookups, calls, stdout>>
           ELSE IF parsed.tag = "None"
           THEN /\ cmd' = parsed
                /\ pc' = "done"
                /\ UNCHANGED <<phase, failure, sender, lookups, calls, stdout>>
           ELSE IF found = {}
           THEN \* find(..).unwrap() on None
                /\ cmd' = parsed
                /\ lookups' = Append(lookups, parsed.user_id)
                /\ phase' = "panicked"
                /\ failure' = "find_user"
                /\ UNCHANGED <<pc, sender, calls, stdout>>
           ELSE IF handler = NoHandler
           THEN /\ cmd' = parsed
                /\ lookups' = Append(lookups, parsed.user_id)
                /\ stdout' = Append(stdout, parsed.command)
                /\ pc' = "done"
                /\ UNCHANGED <<phase, failure, sender, calls>>
           ELSE /\ cmd' = parsed
                /\ lookups' = Append(lookups, parsed.user_id)
                /\ sender' = [channel_writer |-> ChannelWriter_new(parsed.channel),
                              user |-> CHOOSE u \in found : TRUE]
                /\ calls' = Append(calls, [handler |-> handler,
                                           name |-> parsed.command,
                                           args |-> parsed.args])
                /\ pc' = "handling"
                /\ UNCHANGED <<phase, failure, stdout>>
    /\ UNCHANGED <<bot_name, handlers, regs, users, inbox, returned, sent>>

(***************************************************************************)
(* The handler's body is the embedder's code: while it runs it may call    *)
(* Sender::respond_in_channel, and it ends by returning or by panicking.   *)
(***************************************************************************)
\* a bug this model is checked against: a failed send tried a second time
respond_in_channel_retrying(message, ok) ==
    /\ phase = "running"
    /\ pc = "handling"
    /\ Len(sent) < MaxSends
    /\ LET attempt == [request |-> write(sender.channel_writer, message),
                       ok |-> ok]
       IN  sent' = IF ok THEN Append(sent, attempt)
                   ELSE Append(Append(sent, attempt), attempt)
    /\ returned' = result_of(ok)
    /\ UNCHANGED <<phase, failure, bot_name, handlers, regs, users, pc, inbox,
                   cmd, sender, lookups, calls, stdout>>

\* one send_message request; its Result goes back to the handler
respond_in_channel(message, ok) ==
    /\ phase = "running"
    /\ pc = "handling"
    /\ Len(sent) < MaxSends
    /\ sent' = Append(sent, [request |-> write(sender.channel_writer, message),
                             ok |-> ok])
    /\ returned' = result_of(ok)
    /\ UNCHANGED <<phase, failure, bot_name, handlers, regs, users, pc, inbox,
                   cmd, sender, lookups, calls, stdout>>

\* handle returns; on_receive prints "Got command" and returns
handle_returns ==
    /\ phase = "running"
    /\ pc = "handling"
    /\ stdout' = Append(stdout, cmd.command)
    /\ pc' = "done"
    /\ UNCHANGED <<phase, failure, bot_name, handlers, regs, users, inbox,
                   cmd, sender, lookups, returned, calls, sent>>

\* a bug this model is checked against: the handler's panic caught
\* (catch_unwind) and the dispatch carried on to its end
handle_panics_caught ==
    /\ phase = "running"
    /\ pc = "handling"
    /\ failure' = "handler"
    /\ stdout' = Append(stdout, cmd.command)
    /\ pc' = "done"
    /\ UNCHANGED <<phase, bot_name, handlers, regs, users, inbox, cmd, sender,
                   lookups, returned, calls, sent>>

\* handle panics; nothing in on_receive catches it
handle_panics ==
    /\ phase = "running"
    /\ pc = "handling"
    /\ phase' = "panicked"
    /\ failure' = "handler"
    /\ UNCHANGED <<bot_name, handlers, regs, users, pc, inbox, cmd, sender,
                   lookups, returned, calls, sent, stdout>>

(***************************************************************************)
(* The frames of the runs of the whole bot.                                *)
(***************************************************************************)
EventTexts ==
    { <<"!", "b">>,
      <<"!", "b", " ", "b">>,
      <<"!", "b", " ", "B">>,
      <<"!", "b", " ", "b", "b">>,
      <<"!", "b", " ", "h">>,
      <<"!", "b", " ", " ", "b", " ", "B", " ", "b">>,
      <<"!", "b", "b", " ", "b">>,
      <<"b", " ", "b">> }

EventTypes == {JAbsent, JString("message"), JString("other")}
EventUsers == {JAbsent, JString("U1"), JString("U2")}
EventChannels == {JAbsent, JString("C1"), JString("C2")}

EventFrames ==
    {InvalidJson, NonObjectJson} \cup
    { Object(ty, tx, u, c) :
        ty \in EventTypes,
        tx \in {TAbsent, TOther} \cup {TString(t) : t \in EventTexts},
        u \in EventUsers,
        c \in EventChannels }

\* the registrations and the directories of the runs: the second handler is
\* registered under "b" only, and a directory with a single user holds U1
\* (the cases left out are these with the two handlers or users exchanged)
Registrations ==
    {r \in [name : RegNames, handler : HandlerIds] :
        r.name = <<"b">> \/ r.handler = "h1"}

Directories ==
    {d \in SUBSET KnownUsers : d = {} \/ [id |-> "U1"] \in d}

Next ==
    \/ \E r \in Registrations : on(r.name, r.handler)
    \/ \E d \in Directories : run(d)
    \/ \E j \in EventFrames : receive_frame(j)
    \/ on_receive
    \/ \E m \in Messages, ok \in BOOLEAN : respond_in_channel(m, ok)
    \/ handle_returns
    \/ handle_panics
    \/ next_frame

Spec == Init /\ [][Next]_vars

(***************************************************************************)
(* One event, every frame: the bot has registered a handler under "b",     *)
(* logged in with one known user and received one frame, drawn from every  *)
(* text up to MaxTextLen characters and every shape of the other fields.   *)
(***************************************************************************)
ParseFields(id) == {JAbsent, JOther, JString(""), JString(id)}

ParseTypes == {JAbsent, JOther, JString("message"), JString("other")}

ParseFrames ==
    {InvalidJson, NonObjectJson} \cup
    { Object(ty, tx, u, c) :
        ty \in ParseTypes,
        tx \in {TAbsent, TOther} \cup {TString(t) : t \in Texts},
        u \in ParseFields("U1"),
        c \in ParseFields("C1") }

InitOneEvent ==
    /\ phase = "running"
    /\ failure = "none"
    /\ bot_name \in BotNames
    /\ handlers = insert(<<>>, <<"b">>, "h1")
    /\ regs = <<[name |-> <<"b">>, handler |-> "h1"]>>
    /\ users = {[id |-> "U1"]}
    /\ pc = "received"
    /\ inbox \in ParseFrames
    /\ cmd = NoneCommand
    /\ sender = NoSender
    /\ lookups = <<>>
    /\ returned = "none"
    /\ calls = <<>>
    /\ sent = <<>>
    /\ stdout = <<>>

NextOneEvent ==
    \/ on_receive
    \/ \E m \in Messages, ok \in BOOLEAN : respond_in_channel(m, ok)
    \/ handle_returns
    \/ handle_panics

SpecOneEvent == InitOneEvent /\ [][NextOneEvent]_vars

(***************************************************************************)
(* Properties.                                                             *)
(***************************************************************************)

\* cmd holds the parser's result for the frame in inbox
Parsed ==
    \/ pc \in {"handling", "done"}
    \/ phase = "panicked" /\ failure \in {"find_user", "handler"}

KnownUser(user_id) == \E u \in users : u.id = user_id

\* C1: an event that parses to a Command whose user_id is not in the user
\* directory causes no observable action: no handler is invoked, nothing is
\* sent, no failure is raised and the run loop goes on.
C1_UnknownUserIsDropped ==
    (Parsed /\ cmd.tag = "Some" /\ ~KnownUser(cmd.user_id))
        => /\ phase # "panicked"
           /\ calls = <<>>
           /\ sent = <<>>

\* C2: an event that parses to a Command whose name has no registered
\* handler sends no reply and raises no failure, whatever the user directory
\* holds (the sender may be unknown), and the run loop goes on.
C2_UnknownCommandIsDropped ==
    (Parsed /\ cmd.tag = "Some" /\ cmd.command \notin DOMAIN handlers)
        => /\ phase # "panicked"
           /\ sent = <<>>

\* C3: every send request issued through a Sender carries the channel id of
\* the Command whose dispatch built that Sender (the channel field of the
\* frame being dispatched), whatever the message and however many requests
\* the handler issues.
C3_ReplyTargetsCommandChannel ==
    \A i \in DOMAIN sent :
        /\ Parsed
        /\ cmd.tag = "Some"
        /\ sent[i].request.channel = cmd.channel
        /\ sent[i].request.channel = inbox.channel.str

\* C3 witness: two replies on channel C2, the first with a message that reads
\* like another channel's id
C3_Witness ==
    /\ Len(sent) = 2
    /\ cmd.channel = "C2"
    /\ sent[1].request.message = "C1"
    /\ sent[2].request.message = "hello"

\* the handler of the last call of SlackBot::on under a name
LastRegistered(name) ==
    LET i == CHOOSE k \in DOMAIN regs :
                 /\ regs[k].name = name
                 /\ \A j \in DOMAIN regs : j > k => regs[j].name # name
    IN  regs[i].handler

Registered(name) == \E k \in DOMAIN regs : regs[k].name = name

\* C4: the registry maps each registered name to the handler of the last
\* registration under it, registering a name twice raises no failure, and the
\* handler invoked for a command name is the last one registered under that
\* name, never one that a later registration replaced.
C4_LastRegistrationWins ==
    /\ phase = "registering" => failure = "none"
    /\ DOMAIN handlers = {regs[k].name : k \in DOMAIN regs}
    /\ \A n \in DOMAIN handlers : handlers[n] = LastRegistered(n)
    /\ \A i \in DOMAIN calls :
           /\ Registered(calls[i].name)
           /\ calls[i].handler = LastRegistered(calls[i].name)

\* C4 witness: a handler is invoked for a name registered twice, with two
\* different handlers
C4_Witness ==
    /\ Len(calls) = 1
    /\ Len(regs) = 2
    /\ regs[1].name = regs[2].name
    /\ regs[1].handler # regs[2].handler
    /\ calls[1].name = regs[2].name
    /\ calls[1].handler = regs[2].handler

(***************************************************************************)
(* Properties of the parser, stated on the frame in inbox without the      *)
(* parser's own helpers.                                                   *)
(***************************************************************************)
IsObject == inbox.json = "object"
TypeIsMessage == inbox.type.kind = "string" /\ inbox.type.str = "message"
TextIsString == inbox.text.kind = "string"
UserAndChannelAreStrings ==
    inbox.user.kind = "string" /\ inbox.channel.kind = "string"

Text == inbox.text.str
Prefix == <<"!">> \o bot_name

HasPrefix ==
    /\ Len(Text) >= Len(Prefix)
    /\ \A i \in 1..Len(Prefix) : Text[i] = Prefix[i]

\* the prefix ends the text or is followed by a whitespace character
PrefixAtWordBoundary ==
    Len(Text) = Len(Prefix) \/ Text[Len(Prefix) + 1] \in Whitespace

\* the text after the prefix
Rest == SubSeq(Text, Len(Prefix) + 1, Len(Text))

\* the maximal runs of non-whitespace characters of t, in order
TokenStarts(t) ==
    {i \in 1..Len(t) : t[i] \notin Whitespace /\ (i = 1 \/ t[i - 1] \in Whitespace)}

TokenEnd(t, i) ==
    CHOOSE j \in i..Len(t) :
        /\ \A k \in i..j : t[k] \notin Whitespace
        /\ j = Len(t) \/ t[j + 1] \in Whitespace

NthStart(t, n) ==
    CHOOSE i \in TokenStarts(t) :
        Cardinality({k \in TokenStarts(t) : k <= i}) = n

TokensOf(t) ==
    [n \in 1..Cardinality(TokenStarts(t)) |->
        SubSeq(t, NthStart(t, n), TokenEnd(t, NthStart(t, n)))]

\* C5: a Command is produced only for a frame of type "message" whose text
\* begins with "!" + bot_name immediately followed by whitespace or by the
\* end of the text (so none for "!bots echo" with the bot name "bot").
C5_CommandOnlyAtWordBoundary ==
    (Parsed /\ cmd.tag = "Some")
        => /\ TypeIsMessage
           /\ TextIsString
           /\ HasPrefix
           /\ PrefixAtWordBoundary

\* C6 as claimed: whenever the parser returns a Command, its name, user_id and
\* channel_id are all non-empty, also for frames whose user or channel field
\* is the empty string.
C6_AllFieldsNonEmpty ==
    (Parsed /\ cmd.tag = "Some")
        => /\ cmd.command # <<>>
           /\ cmd.user_id # ""
           /\ cmd.channel # ""

\* C6 as amended: whenever the parser returns a Command, its name is
\* non-empty, and its user_id and channel_id are the frame's user and channel
\* strings as they are: each is empty exactly when the frame's field is the
\* empty string.
C6_NameNonEmptyIdsAsReceived ==
    (Parsed /\ cmd.tag = "Some")
        => /\ cmd.command # <<>>
           /\ UserAndChannelAreStrings
           /\ cmd.user_id = "" <=> inbox.user.str = ""
           /\ cmd.channel = "" <=> inbox.channel.str = ""

\* C6 witness: a Command parsed from a frame whose user field is the empty
\* string and whose text is the prefix alone
C6_Witness ==
    /\ Parsed
    /\ cmd.tag = "Some"
    /\ inbox.user = JString("")
    /\ inbox.channel = JString("C1")
    /\ Text = Prefix
    /\ cmd.user_id = ""

\* C7: for every frame whose type field is absent or is not the string
\* "message" the parser returns no command, so on_receive invokes no handler
\* and sends nothing, whatever the other fields hold.
C7_NonMessageTypeIsNoCommand ==
    (IsObject /\ ~TypeIsMessage)
        => /\ pc \in {"received", "done"}
           /\ phase = "running"
           /\ cmd.tag = "None"
           /\ calls = <<>>
           /\ sent = <<>>

\* C7 witness: a frame of another type, otherwise a well-formed command of a
\* known user for a registered handler, has been dispatched
C7_Witness ==
    /\ pc = "done"
    /\ inbox.type = JString("other")
    /\ Text = <<"!", "b", " ", "b">>
    /\ inbox.user = JString("U1")
    /\ inbox.channel = JString("C1")
    /\ <<"b">> \in DOMAIN handlers
    /\ KnownUser("U1")

\* C8: for every frame of type "message" whose text is absent, is no string
\* or does not start with "!" + bot_name (leading whitespace before the
\* prefix included), the parser returns no command.
C8_NoPrefixIsNoCommand ==
    (IsObject /\ TypeIsMessage /\ ~(TextIsString /\ HasPrefix))
        => /\ pc \in {"received", "done"}
           /\ phase = "running"
           /\ cmd.tag = "None"
           /\ calls = <<>>

\* C8 witness: a message whose text has whitespace before the prefix has been
\* dispatched
C8_Witness ==
    /\ pc = "done"
    /\ TypeIsMessage
    /\ Text = <<" ", "!", "b", " ", "b">>
    /\ inbox.user = JString("U1")
    /\ inbox.channel = JString("C1")
    /\ <<"b">> \in DOMAIN handlers

\* no character other than whitespace follows the first whitespace character
NoTokenAfterFirst ==
    \A i, j \in 1..Len(Text) :
        (i < j /\ Text[i] \in Whitespace) => Text[j] \in Whitespace

\* C9: for every message frame with string user and channel fields whose text
\* starts with the prefix and holds no whitespace-delimited token after the
\* first one, the parser returns a Command named "help" with no arguments.
C9_PrefixAloneIsHelp ==
    ( /\ IsObject /\ TypeIsMessage /\ TextIsString /\ UserAndChannelAreStrings
      /\ HasPrefix /\ NoTokenAfterFirst
      /\ ~(phase = "running" /\ pc = "received") )
        => /\ Parsed
           /\ cmd.tag = "Some"
           /\ cmd.command = <<"h", "e", "l", "p">>
           /\ cmd.args = <<>>

\* C9 witness: the prefix followed only by whitespace has been parsed
C9_Witness ==
    /\ Parsed
    /\ TypeIsMessage
    /\ Text = <<"!", "b", " ", " ">>
    /\ inbox.user = JString("U1")
    /\ cmd.tag = "Some"

\* the text is the prefix, then whitespace, then at least one token
PrefixThenTokens ==
    /\ HasPrefix
    /\ Len(Text) > Len(Prefix)
    /\ Text[Len(Prefix) + 1] \in Whitespace
    /\ TokenStarts(Rest) # {}

C11_MissingUserOrChannelIsNoCommand ==
    (IsObject /\ TypeIsMessage /\ TextIsString /\ HasPrefix
        /\ ~UserAndChannelAreStrings)
        => /\ pc \in {"received", "done"}
           /\ phase = "running"
           /\ cmd.tag = "None"
           /\ lookups = <<>>
           /\ calls = <<>>
           /\ sent = <<>>

\* C11 witness: a command for the registered handler, without a user field,
\* has been dispatched
C11_Witness ==
    /\ pc = "done"
    /\ TypeIsMessage
    /\ Text = <<"!", "b", " ", "b">>
    /\ inbox.user = JAbsent
    /\ inbox.channel = JString("C1")
    /\ <<"b">> \in DOMAIN handlers

MalformedFrame == inbox.json \in {"invalid", "value"}

MalformedAbort == phase = "panicked" /\ failure \in {"from_str", "as_object"}

\* C13: a frame that cannot be deserialized as a structured object is fatal
\* and never a "no command" result: its dispatch neither completes nor
\* reaches a handler, invokes nothing and sends nothing, it ends in the
\* abort, and after the abort nothing more happens.
C13_MalformedFrameIsFatal ==
    /\ [](MalformedFrame
            => /\ pc = "received"
               /\ lookups = <<>>
               /\ calls = <<>>
               /\ sent = <<>>
               /\ stdout = <<>>)
    /\ [][(MalformedFrame /\ pc = "received" /\ phase = "running")
            => (phase' = "panicked" /\ failure' \in {"from_str", "as_object"})]_vars
    /\ [][~MalformedAbort]_vars

\* C13 witness: the abort on a frame that is no JSON, with a handler
\* registered
C13_Witness ==
    /\ MalformedAbort
    /\ failure = "from_str"
    /\ inbox = InvalidJson
    /\ handlers # <<>>

\* C14: once run has started, no step of any dispatch (of a frame that is no
\* command, of an unknown user, of an unknown command, of a command that is
\* handled) adds, removes or rebinds a key of the handler registry.
C14_RegistryFixedDuringRun ==
    [][phase # "registering" => handlers' = handlers]_vars

\* C14 witness: a dispatch that invoked a handler and sent two replies has
\* completed, with two names registered
C14_Witness ==
    /\ pc = "done"
    /\ Len(calls) = 1
    /\ Len(sent) = 2
    /\ DOMAIN handlers = {<<"b">>, <<"h", "e", "l", "p">>}

\* the command name as the text holds it: its second token, or "help"
NameInText ==
    IF Cardinality(TokenStarts(Text)) >= 2
    THEN TokensOf(Text)[2]
    ELSE <<"h", "e", "l", "p">>

\* C15: a handler registered under a key is invoked only for a command whose
\* name is that key exactly (every character, case included); a name that is
\* no key, such as one differing in case or a prefix or an extension of a
\* key, invokes no handler: there is no fallback.
C15_ExactNameLookup ==
    /\ \A i \in DOMAIN calls :
           /\ cmd.tag = "Some"
           /\ cmd.command = NameInText
           /\ calls[i].name = NameInText
           /\ NameInText \in DOMAIN handlers
           /\ calls[i].handler = handlers[NameInText]
    /\ (Parsed /\ cmd.tag = "Some" /\ NameInText \notin DOMAIN handlers)
           => calls = <<>>

\* C15 witness: the command "B" of a known user has been dispatched to no
\* handler while "b" and "help" are registered
C15_Witness ==
    /\ pc = "done"
    /\ cmd.tag = "Some"
    /\ cmd.command = <<"B">>
    /\ KnownUser(cmd.user_id)
    /\ DOMAIN handlers = {<<"b">>, <<"h", "e", "l", "p">>}
    /\ calls = <<>>

\* the arguments as the text holds them: its tokens after the second
ArgsInText ==
    LET tokens == TokensOf(Text)
    IN  IF Len(tokens) >= 3 THEN SubSeq(tokens, 3, Len(tokens)) ELSE <<>>

\* C16: an event that parses to a Command of a known user with a registered
\* handler causes exactly one invocation of that handler, with the Command's
\* arguments; no event causes more than one; and the event loop takes a frame
\* only while no dispatch is in progress, so that an invocation has returned
\* before the next frame is parsed and none follows one that failed.
C16_OneInvocationPerEventInOrder ==
    /\ [](Len(calls) <= 1)
    /\ []((Parsed /\ cmd.tag = "Some" /\ KnownUser(cmd.user_id)
            /\ cmd.command \in DOMAIN handlers)
            => /\ Len(calls) = 1
               /\ calls[1].handler = handlers[cmd.command]
               /\ calls[1].args = cmd.args
               /\ calls[1].args = ArgsInText)
    /\ [][calls' # calls /\ calls' # <<>>
            => /\ pc = "received"
               /\ calls = <<>>
               /\ inbox' = inbox
               /\ pc' = "handling"]_vars
    /\ [][inbox' # inbox
            => /\ phase = "running"
               /\ pc \in {"idle", "done"}
               /\ (pc = "idle" => calls = <<>>)
               /\ (pc = "done" => inbox' = NoFrame)]_vars

\* C16 witness: the handler has been invoked once with the two arguments of
\* the text and has returned
C16_Witness ==
    /\ pc = "done"
    /\ Len(calls) = 1
    /\ calls[1].name = <<"b">>
    /\ calls[1].args = << <<"B">>, <<"b">> >>

HandlerAbort == phase = "panicked" /\ failure = "handler"

\* C17: a failure raised by a handler is not caught: the dispatch ends in the
\* failure, with nothing printed, nothing more sent and no second invocation,
\* and nothing happens after it.
C17_HandlerFailurePropagates ==
    /\ [](HandlerAbort
            => /\ pc = "handling"
               /\ Len(calls) = 1
               /\ stdout = <<>>)
    /\ [][failure' = "handler" /\ failure # "handler"
            => /\ pc = "handling"
               /\ phase' = "panicked"
               /\ pc' = pc
               /\ sent' = sent
               /\ calls' = calls
               /\ stdout' = stdout]_vars
    /\ [][~HandlerAbort]_vars

\* C17 witness: a handler failed after one reply
C17_Witness ==
    /\ HandlerAbort
    /\ Len(sent) = 1
    /\ Len(calls) = 1

\* C18: a call of respond_in_channel issues exactly one send request and
\* returns that request's result to the handler; a failed send is returned as
\* an error, is not tried again, and by itself neither aborts the dispatch
\* nor changes the registry or the channel the Sender is bound to.
C18_OneSendPerCallResultReturned ==
    /\ [](sent # <<>>
            => returned = (IF sent[Len(sent)].ok THEN "Ok" ELSE "Err"))
    /\ [][sent' # sent /\ sent' # <<>>
            => /\ sent' = Append(sent, sent'[Len(sent')])
               /\ phase' = phase
               /\ failure' = failure
               /\ pc = "handling"
               /\ pc' = "handling"
               /\ handlers' = handlers
               /\ sender' = sender
               /\ calls' = calls]_vars

\* C18 witness: the handler returned normally after its only send failed
C18_Witness ==
    /\ pc = "done"
    /\ phase = "running"
    /\ Len(sent) = 1
    /\ ~sent[1].ok
    /\ returned = "Err"

CommandShaped ==
    TypeIsMessage /\ TextIsString /\ HasPrefix /\ UserAndChannelAreStrings

\* C19: a well-formed frame that is no command (another type, no prefix, no
\* text, user or channel) changes nothing: no user is looked up, no handler
\* is invoked, nothing is sent or printed, no failure is raised, and the
\* event loop goes on to the next frame.
C19_NonCommandChangesNothing ==
    (IsObject /\ ~CommandShaped)
        => /\ phase = "running"
           /\ failure = "none"
           /\ pc \in {"received", "done"}
           /\ cmd.tag = "None"
           /\ lookups = <<>>
           /\ calls = <<>>
           /\ sent = <<>>
           /\ stdout = <<>>
           /\ (pc = "done" => ENABLED next_frame)

\* C19 witness: a message without the prefix, of a known user, has been
\* dispatched while a handler is registered under its second word
C19_Witness ==
    /\ pc = "done"
    /\ TypeIsMessage
    /\ Text = <<"b", " ", "b">>
    /\ inbox.user = JString("U1")
    /\ inbox.channel = JString("C1")
    /\ KnownUser("U1")
    /\ <<"b">> \in DOMAIN handlers

\* C20: whenever a handler is invoked, the user its Sender exposes is the
\* entry of the directory whose id is the user_id of the Command being
\* dispatched, the author of the frame in dispatch, found by the one lookup
\* of this dispatch.
C20_SenderUserIsCommandAuthor ==
    calls # <<>>
        => /\ sender.user \in users
           /\ sender.user.id = cmd.user_id
           /\ sender.user.id = inbox.user.str
           /\ lookups = <<cmd.user_id>>

\* C20 witness: a handler runs for a command of U2 while the directory holds
\* U1 and U2
C20_Witness ==
    /\ pc = "handling"
    /\ users = {[id |-> "U1"], [id |-> "U2"]}
    /\ sender.user.id = "U2"
    /\ cmd.user_id = "U2"
====
